---- MODULE Spec2Model ----
(***************************************************************************)
(* Model of the rule-based element detection of                            *)
(* core_framework/utils/smart_automation_model.py: the classifier          *)
(* (SmartElementDetector.classify_element), the selector synthesis and the *)
(* element aggregation (SmartPageObjectGenerator) and the step loop of     *)
(* SmartAutomationModel.                                                   *)
(*                                                                         *)
(* Five specifications share the definitions: SpecPure (one call of the    *)
(* classifier or of the selector synthesis on one bag), SpecName (one call *)
(* of _generate_element_name), SpecDetector (a sequence of calls on one    *)
(* SmartElementDetector), SpecExtract (the loop of _extract_elements) and  *)
(* Spec (the step loop and the script generation).                         *)
(*                                                                         *)
(* Strings are TLA+ strings; a character is a string of length 1.          *)
(* A confidence is an integer number of 1/7000: every confidence the code  *)
(* computes (0.9, 0.95, 0.85, 0.7, weight * 0.8 * k / n with n in 5,6,7,   *)
(* and the threshold 0.3) is an exact multiple of 1/7000, and no two of    *)
(* them that differ are closer than 1/7000, so the integer comparisons     *)
(* agree with the floating-point comparisons of the code.                  *)
(***************************************************************************)
EXTENDS Integers, Sequences, FiniteSets, TLC

VARIABLES
    \* --- one call of the pure functions on one attribute bag (SpecPure)
    bag,          \* the element_data dictionary handed to the call
    pcall,        \* "new" | "classified" | "selected"
    cls,          \* result of classify_element: [role, confidence]
    sel,          \* result of _generate_robust_selector: [raised, value]
    \* --- one run of _extract_elements on one page (SpecExtract)
    xdom,         \* the elements of the page, in document order
    xpos,         \* the next entry of the scan (selector, handle) to process
    elements,     \* the dictionary being built: a sequence of [name, info]
    xlog,         \* history: the accepted additions, in order
    xlast,        \* history: the last handle processed and the dictionary before it
    \* --- one run of SmartAutomationModel.process_test_case (Spec)
    pc,           \* the position in process_test_case and, after its return, in
                  \* PlaywrightMCPGenerator.generate_playwright_script: "init" |
                  \* "steps" | "generated" | "finally" | "returned" | "scripted" |
                  \* "raised"
    browser,      \* the page the browser shows: [title, dom]
    test_steps,   \* the steps of test_config taken so far
    page_objects, \* self.page_objects: a sequence of [name, info]
    results,      \* the results dictionary
    lastUse,      \* history: the element the last fill or click selected
    lastStep,     \* history: how the last step ended
    report,       \* the execution report file: [written, status]
    cleanups,     \* history: the number of executions of _cleanup
    mcp,          \* PlaywrightMCPGenerator: [page_objects, playwright_test]
    \* --- one SmartElementDetector and the calls made on it (SpecDetector)
    detector,     \* self.element_patterns
    calls,        \* history: the calls of classify_element, as [bag, result]
    \* --- one call of _generate_element_name (SpecName)
    ename         \* [called, element_type, index, value]

varsPure == <<bag, pcall, cls, sel>>
varsExtract == <<xdom, xpos, elements, xlog, xlast>>
varsAfter == <<report, cleanups, mcp>>
varsRun == <<pc, browser, test_steps, page_objects, results, lastUse, lastStep, varsAfter>>
varsDetector == <<detector, calls>>
varsName == <<ename>>
vars == <<bag, pcall, cls, sel, xdom, xpos, elements, xlog, xlast,
          pc, browser, test_steps, page_objects, results, lastUse, lastStep,
          report, cleanups, mcp, detector, calls, ename>>

----------------------------------------------------------------------------
(* Strings *)

\* A key that the dictionary does not hold.
Absent == "<absent>"

\* dict.get(key, default)
Get(d, key, default) == IF d[key] = Absent THEN default ELSE d[key]

\* dict.get(key) used as a condition: None and '' are both false
Truthy(d, key) == d[key] # Absent /\ d[key] # ""

Chr(s, i) == SubSeq(s, i, i)

UpperAlpha == "ABCDEFGHIJKLMNOPQRSTUVWXYZ"
LowerAlpha == "abcdefghijklmnopqrstuvwxyz"
DigitChars == "0123456789"

InStr(c, s) == \E i \in 1..Len(s) : Chr(s, i) = c

UpperChars == {Chr(UpperAlpha, i) : i \in 1..Len(UpperAlpha)}

LowerOf == [c \in UpperChars |->
              Chr(LowerAlpha, CHOOSE i \in 1..Len(UpperAlpha) : Chr(UpperAlpha, i) = c)]

LowerChar(c) == IF c \in UpperChars THEN LowerOf[c] ELSE c

\* str.lower()
RECURSIVE Lower(_)
Lower(s) == IF s = "" THEN "" ELSE LowerChar(Chr(s, 1)) \o Lower(SubSeq(s, 2, Len(s)))

\* `k in s` for strings
Contains(k, s) == \E i \in 1..(Len(s) - Len(k) + 1) : SubSeq(s, i, i + Len(k) - 1) = k

\* sep.join(list)
RECURSIVE Join(_, _)
Join(sep, list) ==
    IF list = <<>> THEN ""
    ELSE IF Len(list) = 1 THEN list[1]
    ELSE list[1] \o sep \o Join(sep, Tail(list))

\* str.split(): the maximal runs of non-blank characters
RECURSIVE SplitFrom(_, _, _)
SplitFrom(s, i, cur) ==
    IF i > Len(s) THEN (IF cur = "" THEN <<>> ELSE <<cur>>)
    ELSE IF Chr(s, i) = " "
         THEN (IF cur = "" THEN <<>> ELSE <<cur>>) \o SplitFrom(s, i + 1, "")
         ELSE SplitFrom(s, i + 1, cur \o Chr(s, i))

Split(s) == SplitFrom(s, 1, "")

\* str.replace(old, new) for a one-character old
RECURSIVE ReplaceChar(_, _, _)
ReplaceChar(s, old, new) ==
    IF s = "" THEN ""
    ELSE (IF Chr(s, 1) = old THEN new ELSE Chr(s, 1))
         \o ReplaceChar(SubSeq(s, 2, Len(s)), old, new)

----------------------------------------------------------------------------
(* Confidences *)

\* p thousandths, in units of 1/7000
Conf(p) == p * 7

\* SmartElementDetector.element_patterns, in the order of the dictionary
element_patterns == <<
    [type |-> "email",
     keywords |-> <<"email", "username", "user", "login", "account", "signin">>,
     weight |-> Conf(900)],
    [type |-> "password",
     keywords |-> <<"password", "pass", "pwd", "secret", "auth">>,
     weight |-> Conf(950)],
    [type |-> "submit",
     keywords |-> <<"submit", "login", "signin", "sign-in", "enter", "go", "continue">>,
     weight |-> Conf(850)],
    [type |-> "link",
     keywords |-> <<"link", "href", "navigate", "goto", "click">>,
     weight |-> Conf(700)] >>

Max(a, b) == IF a >= b THEN a ELSE b

\* the text_content of classify_element
TextContent(d) ==
    Lower(Join(" ", << Get(d, "text", ""), Get(d, "placeholder", ""), Get(d, "name", ""),
                       Get(d, "id", ""), Get(d, "className", ""), Get(d, "ariaLabel", ""),
                       Get(d, "dataTestId", "") >>))

\* sum(1 for keyword in keywords if keyword in text_content)
KeywordMatches(keywords, text) ==
    Cardinality({i \in 1..Len(keywords) : Contains(keywords[i], text)})

AnyKeyword(kws, text) == \E k \in kws : Contains(k, text)

\* KeywordConfidence without the factor 0.8
KeywordConfidence_NoDamp(weight, matches, n) == (weight * matches) \div n

\* KeywordConfidence without the division by len(keywords)
KeywordConfidence_NoShare(weight, matches, n) == (weight * 8 * matches) \div 10

\* weight * 0.8 * (matches / len(keywords)); exact in units of 1/7000
KeywordConfidence(weight, matches, n) == (weight * 8 * matches) \div (10 * n)

\* TypeConfidence with the button rule of the submit pattern raised to 0.95
TypeConfidence_ButtonBoost(patterns, elem_type, tag_name, text) ==
    LET direct == IF elem_type = patterns.type THEN patterns.weight ELSE 0
        matches == KeywordMatches(patterns.keywords, text)
        kw == IF matches > 0
              THEN Max(direct, KeywordConfidence(patterns.weight, matches, Len(patterns.keywords)))
              ELSE direct
    IN  CASE patterns.type = "email" ->
               IF elem_type \in {"email", "text"} /\ AnyKeyword({"email", "username", "user"}, text)
               THEN Max(kw, Conf(900)) ELSE kw
          [] patterns.type = "password" ->
               IF elem_type = "password" THEN Conf(950) ELSE kw
          [] patterns.type = "submit" ->
               IF tag_name = "button" /\ AnyKeyword({"login", "signin", "submit"}, text)
               THEN Max(kw, Conf(950))
               ELSE IF elem_type = "submit" THEN Max(kw, Conf(900)) ELSE kw
          [] OTHER -> kw

\* TypeConfidence with the email rule applied to every email or text input,
\* whatever the text content holds
TypeConfidence_TextIsEmail(patterns, elem_type, tag_name, text) ==
    LET direct == IF elem_type = patterns.type THEN patterns.weight ELSE 0
        matches == KeywordMatches(patterns.keywords, text)
        kw == IF matches > 0
              THEN Max(direct, KeywordConfidence(patterns.weight, matches, Len(patterns.keywords)))
              ELSE direct
    IN  CASE patterns.type = "email" ->
               IF elem_type \in {"email", "text"} THEN Max(kw, Conf(900)) ELSE kw
          [] patterns.type = "password" ->
               IF elem_type = "password" THEN Conf(950) ELSE kw
          [] patterns.type = "submit" ->
               IF tag_name = "button" /\ AnyKeyword({"login", "signin", "submit"}, text)
               THEN Max(kw, Conf(850))
               ELSE IF elem_type = "submit" THEN Max(kw, Conf(900)) ELSE kw
          [] OTHER -> kw

\* the confidence of one pattern: the body of the loop over element_patterns
TypeConfidence(patterns, elem_type, tag_name, text) ==
    LET direct == IF elem_type = patterns.type THEN patterns.weight ELSE 0
        matches == KeywordMatches(patterns.keywords, text)
        kw == IF matches > 0
              THEN Max(direct, KeywordConfidence(patterns.weight, matches, Len(patterns.keywords)))
              ELSE direct
    IN  CASE patterns.type = "email" ->
               IF elem_type \in {"email", "text"} /\ AnyKeyword({"email", "username", "user"}, text)
               THEN Max(kw, Conf(900)) ELSE kw
          [] patterns.type = "password" ->
               IF elem_type = "password" THEN Conf(950) ELSE kw
          [] patterns.type = "submit" ->
               IF tag_name = "button" /\ AnyKeyword({"login", "signin", "submit"}, text)
               THEN Max(kw, Conf(850))
               ELSE IF elem_type = "submit" THEN Max(kw, Conf(900)) ELSE kw
          [] OTHER -> kw

\* BestFrom with the update made on `confidence >= best_confidence`
RECURSIVE BestFrom_NotLess(_, _, _, _, _, _)
BestFrom_NotLess(table, elem_type, tag_name, text, i, best) ==
    IF i > Len(table) THEN best
    ELSE LET c == TypeConfidence(table[i], elem_type, tag_name, text)
         IN  BestFrom_NotLess(table, elem_type, tag_name, text, i + 1,
                              IF c >= best.confidence
                              THEN [role |-> table[i].type, confidence |-> c]
                              ELSE best)

\* BestFrom with the update made for every pattern of a confidence above 0
RECURSIVE BestFrom_LastNonzero(_, _, _, _, _, _)
BestFrom_LastNonzero(table, elem_type, tag_name, text, i, best) ==
    IF i > Len(table) THEN best
    ELSE LET c == TypeConfidence(table[i], elem_type, tag_name, text)
         IN  BestFrom_LastNonzero(table, elem_type, tag_name, text, i + 1,
                                  IF c > 0
                                  THEN [role |-> table[i].type, confidence |-> c]
                                  ELSE best)

\* the update of the best match, over the patterns of the table from index i on
RECURSIVE BestFrom(_, _, _, _, _, _)
BestFrom(table, elem_type, tag_name, text, i, best) ==
    IF i > Len(table) THEN best
    ELSE LET c == TypeConfidence(table[i], elem_type, tag_name, text)
         IN  BestFrom(table, elem_type, tag_name, text, i + 1,
                      IF c > best.confidence
                      THEN [role |-> table[i].type, confidence |-> c]
                      ELSE best)

\* classify_element reading the declared type under a key the bag never holds
classify_element_NoType(d) ==
    BestFrom(element_patterns, "", Lower(Get(d, "tagName", "")), TextContent(d), 1,
             [role |-> "other", confidence |-> 0])

\* classify_element reading the declared type with the default 'text'
classify_element_DefaultText(d) ==
    BestFrom(element_patterns, Lower(Get(d, "type", "text")),
             Lower(Get(d, "tagName", "")), TextContent(d), 1,
             [role |-> "other", confidence |-> 0])

\* DetectorClassify with best_type and best_confidence kept from the call before
DetectorClassify_Sticky(table, d) ==
    BestFrom(table, Lower(Get(d, "type", "")), Lower(Get(d, "tagName", "")),
             TextContent(d), 1,
             IF calls = <<>> THEN [role |-> "other", confidence |-> 0]
             ELSE calls[Len(calls)].result)

\* classify_element of a detector whose element_patterns is table
DetectorClassify(table, d) ==
    BestFrom(table, Lower(Get(d, "type", "")), Lower(Get(d, "tagName", "")),
             TextContent(d), 1, [role |-> "other", confidence |-> 0])

\* self.detector.classify_element: the detector SmartPageObjectGenerator
\* constructs holds the table of __init__
classify_element(d) == DetectorClassify(element_patterns, d)

----------------------------------------------------------------------------
(* Selector synthesis *)

Returned(v) == [raised |-> FALSE, value |-> v]
KeyError == [raised |-> TRUE, value |-> "KeyError"]

FirstTwo(list) == SubSeq(list, 1, IF Len(list) < 2 THEN Len(list) ELSE 2)

\* UntaggedSelectors with the id candidate appended before the data-testid one
UntaggedSelectors_IdFirst(d) ==
    (IF Truthy(d, "id") THEN << "#" \o d["id"] >> ELSE <<>>)
    \o (IF Truthy(d, "dataTestId") THEN << "[data-testid=\"" \o d["dataTestId"] \o "\"]" >> ELSE <<>>)
    \o (IF Truthy(d, "name") THEN << "[name=\"" \o d["name"] \o "\"]" >> ELSE <<>>)

\* the candidates of _generate_robust_selector that do not read tagName
UntaggedSelectors(d) ==
    (IF Truthy(d, "dataTestId") THEN << "[data-testid=\"" \o d["dataTestId"] \o "\"]" >> ELSE <<>>)
    \o (IF Truthy(d, "id") THEN << "#" \o d["id"] >> ELSE <<>>)
    \o (IF Truthy(d, "name") THEN << "[name=\"" \o d["name"] \o "\"]" >> ELSE <<>>)

\* TaggedSelectors with the text put into the selector as it is
TaggedSelectors_NoEscape(d, tag) ==
    (IF Truthy(d, "type") THEN << tag \o "[type=\"" \o d["type"] \o "\"]" >> ELSE <<>>)
    \o (IF Truthy(d, "className") /\ Split(d["className"]) # <<>>
        THEN << tag \o "." \o Join(".", FirstTwo(Split(d["className"]))) >> ELSE <<>>)
    \o (IF Truthy(d, "text") /\ Len(d["text"]) < 50 /\ tag \in {"button", "a"}
        THEN << tag \o ":has-text(\"" \o d["text"] \o "\")" >>
        ELSE <<>>)

\* TaggedSelectors with the class candidate appended before the type candidate
TaggedSelectors_ClassFirst(d, tag) ==
    (IF Truthy(d, "className") /\ Split(d["className"]) # <<>>
     THEN << tag \o "." \o Join(".", FirstTwo(Split(d["className"]))) >> ELSE <<>>)
    \o (IF Truthy(d, "type") THEN << tag \o "[type=\"" \o d["type"] \o "\"]" >> ELSE <<>>)
    \o (IF Truthy(d, "text") /\ Len(d["text"]) < 50 /\ tag \in {"button", "a"}
        THEN << tag \o ":has-text(\"" \o ReplaceChar(d["text"], "\"", "\\\"") \o "\")" >>
        ELSE <<>>)

\* the candidates that are built from element_data["tagName"]
TaggedSelectors(d, tag) ==
    (IF Truthy(d, "type") THEN << tag \o "[type=\"" \o d["type"] \o "\"]" >> ELSE <<>>)
    \o (IF Truthy(d, "className") /\ Split(d["className"]) # <<>>
        THEN << tag \o "." \o Join(".", FirstTwo(Split(d["className"]))) >> ELSE <<>>)
    \o (IF Truthy(d, "text") /\ Len(d["text"]) < 50 /\ tag \in {"button", "a"}
        THEN << tag \o ":has-text(\"" \o ReplaceChar(d["text"], "\"", "\\\"") \o "\")" >>
        ELSE <<>>)

\* whether the function evaluates element_data["tagName"]
ReadsTagName(d) ==
    \/ Truthy(d, "type")
    \/ Truthy(d, "className") /\ Split(d["className"]) # <<>>
    \/ Truthy(d, "text") /\ Len(d["text"]) < 50

_generate_robust_selector(d) ==
    IF ReadsTagName(d) /\ d["tagName"] = Absent THEN KeyError
    ELSE LET selectors == UntaggedSelectors(d)
                          \o (IF d["tagName"] = Absent THEN <<>>
                              ELSE TaggedSelectors(d, d["tagName"]))
         IN  Returned(IF selectors # <<>> THEN selectors[1]
                      ELSE Get(d, "tagName", "unknown"))

----------------------------------------------------------------------------
(* Names *)

LowerChars == {Chr(LowerAlpha, i) : i \in 1..Len(LowerAlpha)}
Digits == {Chr(DigitChars, i) : i \in 1..Len(DigitChars)}
Alnum == UpperChars \cup LowerChars \cup Digits

\* str(i) for i >= 0
RECURSIVE ToStr(_)
ToStr(i) == IF i < 10 THEN Chr(DigitChars, i + 1)
            ELSE ToStr(i \div 10) \o Chr(DigitChars, (i % 10) + 1)

\* re.sub(r'[^a-zA-Z0-9]', '_', s)
RECURSIVE SubNonAlnum(_)
SubNonAlnum(s) ==
    IF s = "" THEN ""
    ELSE (IF Chr(s, 1) \in Alnum THEN Chr(s, 1) ELSE "_") \o SubNonAlnum(SubSeq(s, 2, Len(s)))

\* re.sub(r'_+', '_', s)
RECURSIVE CollapseUnderscores(_)
CollapseUnderscores(s) ==
    IF Len(s) < 2 THEN s
    ELSE IF Chr(s, 1) = "_" /\ Chr(s, 2) = "_" THEN CollapseUnderscores(SubSeq(s, 2, Len(s)))
    ELSE Chr(s, 1) \o CollapseUnderscores(SubSeq(s, 2, Len(s)))

\* s.strip('_')
RECURSIVE StripUnderscores(_)
StripUnderscores(s) ==
    IF s = "" THEN ""
    ELSE IF Chr(s, 1) = "_" THEN StripUnderscores(SubSeq(s, 2, Len(s)))
    ELSE IF Chr(s, Len(s)) = "_" THEN StripUnderscores(SubSeq(s, 1, Len(s) - 1))
    ELSE s

_sanitize_name(name) ==
    LET clean_name == StripUnderscores(CollapseUnderscores(SubNonAlnum(name)))
    IN  IF clean_name # "" THEN clean_name ELSE "element"

\* _generate_element_name with the id consulted before the data-testid
_generate_element_name_IdFirst(element_type, d, index) ==
    IF Truthy(d, "id") THEN _sanitize_name(d["id"])
    ELSE IF Truthy(d, "dataTestId") THEN _sanitize_name(d["dataTestId"])
    ELSE IF Truthy(d, "name") THEN _sanitize_name(d["name"])
    ELSE IF Truthy(d, "text") /\ Len(d["text"]) < 30
            /\ StripUnderscores(SubNonAlnum(d["text"])) # ""
         THEN element_type \o "_" \o StripUnderscores(SubNonAlnum(d["text"]))
    ELSE element_type \o "_" \o ToStr(index)

_generate_element_name(element_type, d, index) ==
    IF Truthy(d, "dataTestId") THEN _sanitize_name(d["dataTestId"])
    ELSE IF Truthy(d, "id") THEN _sanitize_name(d["id"])
    ELSE IF Truthy(d, "name") THEN _sanitize_name(d["name"])
    ELSE IF Truthy(d, "text") /\ Len(d["text"]) < 30
            /\ StripUnderscores(SubNonAlnum(d["text"])) # ""
         THEN element_type \o "_" \o StripUnderscores(SubNonAlnum(d["text"]))
    ELSE element_type \o "_" \o ToStr(index)

----------------------------------------------------------------------------
(* Dictionaries that keep the order of insertion: sequences of [name, info] *)

HasKey(dict, name) == \E k \in 1..Len(dict) : dict[k].name = name

Lookup(dict, name) == dict[CHOOSE k \in 1..Len(dict) : dict[k].name = name].info

\* dict[name] = info: an existing key keeps its place
DictPut(dict, name, info) ==
    IF HasKey(dict, name)
    THEN [k \in 1..Len(dict) |-> IF dict[k].name = name
                                 THEN [name |-> name, info |-> info] ELSE dict[k]]
    ELSE Append(dict, [name |-> name, info |-> info])

----------------------------------------------------------------------------
(* _extract_elements *)

\* the selectors scanned, in order
ScanSelectors == <<
    "input[type=\"email\"]", "input[type=\"password\"]", "input[type=\"text\"]",
    "input[type=\"submit\"]", "button", "a[href]", "select", "textarea",
    "[data-testid]", "[id]", "[name]", "[role=\"button\"]", "[role=\"link\"]",
    ".btn", ".button", ".login", ".signin" >>

HasClass(e, c) == \E k \in 1..Len(Split(e.className)) : Split(e.className)[k] = c

\* whether page.query_selector_all(selector) returns the element; an attribute
\* is taken to be set on the element exactly when its extracted value is not ''
Matches(selector, e) ==
    CASE selector = "input[type=\"email\"]" -> e.tagName = "input" /\ e.type = "email"
      [] selector = "input[type=\"password\"]" -> e.tagName = "input" /\ e.type = "password"
      [] selector = "input[type=\"text\"]" -> e.tagName = "input" /\ e.type = "text"
      [] selector = "input[type=\"submit\"]" -> e.tagName = "input" /\ e.type = "submit"
      [] selector = "button" -> e.tagName = "button"
      [] selector = "a[href]" -> e.tagName = "a" /\ e.href # ""
      [] selector = "select" -> e.tagName = "select"
      [] selector = "textarea" -> e.tagName = "textarea"
      [] selector = "[data-testid]" -> e.dataTestId # ""
      [] selector = "[id]" -> e.id # ""
      [] selector = "[name]" -> e.name # ""
      [] selector = "[role=\"button\"]" -> e.role = "button"
      [] selector = "[role=\"link\"]" -> e.role = "link"
      [] selector = ".btn" -> HasClass(e, "btn")
      [] selector = ".button" -> HasClass(e, "button")
      [] selector = ".login" -> HasClass(e, "login")
      [] selector = ".signin" -> HasClass(e, "signin")

\* enumerate(element_handles) of one selector: [i, bag], in document order
RECURSIVE HandlesFrom(_, _, _, _)
HandlesFrom(dom, selector, k, i) ==
    IF k > Len(dom) THEN <<>>
    ELSE IF Matches(selector, dom[k])
         THEN <<[i |-> i, bag |-> dom[k]]>> \o HandlesFrom(dom, selector, k + 1, i + 1)
         ELSE HandlesFrom(dom, selector, k + 1, i)

\* the iterations of the two nested loops, in order
RECURSIVE ScanFrom(_, _)
ScanFrom(dom, s) ==
    IF s > Len(ScanSelectors) THEN <<>>
    ELSE HandlesFrom(dom, ScanSelectors[s], 1, 0) \o ScanFrom(dom, s + 1)

Scan(dom) == ScanFrom(dom, 1)

\* _get_element_data returns the data and not None
HasElementData(d) == d.isVisible /\ d.isEnabled

\* AcceptedConfidence with the test `confidence < 0` in place of `confidence < 0.3`
AcceptedConfidence_Any(c) == ~(c < 0)

\* the detection is not skipped as a low-confidence one

AcceptedConfidence(c) == ~(c < Conf(300))

\* the iteration reaches the creation of the ElementInfo
Accepted(d) ==
    /\ HasElementData(d)
    /\ d.isVisible
    /\ AcceptedConfidence(classify_element(d).confidence)

\* StoreName without the test for a name in use
StoreName_NoRename(dict, element_name, i) == element_name

\* the name the element is stored under ("Avoid duplicates")
StoreName(dict, element_name, i) ==
    IF HasKey(dict, element_name) THEN element_name \o "_" \o ToStr(i) ELSE element_name

ElementInfo(d, c, selector) ==
    [selector |-> selector, element_type |-> c.role, confidence |-> c.confidence,
     attributes |-> d, text_content |-> Get(d, "text", "")]

\* the name an accepted handle is stored under
NameOf(dict, h) ==
    StoreName(dict,
              _generate_element_name(classify_element(h.bag).role, h.bag, h.i), h.i)

\* one iteration of the inner loop on the dictionary
AddElement(dict, h) ==
    IF ~Accepted(h.bag) THEN dict
    ELSE LET c == classify_element(h.bag)
             s == _generate_robust_selector(h.bag)
         IN  IF s.raised THEN dict   \* except Exception: continue
             ELSE DictPut(dict, NameOf(dict, h), ElementInfo(h.bag, c, s.value))

RECURSIVE ExtractFrom(_, _, _)
ExtractFrom(work, k, dict) ==
    IF k > Len(work) THEN dict ELSE ExtractFrom(work, k + 1, AddElement(dict, work[k]))

_extract_elements(dom) == ExtractFrom(Scan(dom), 1, <<>>)

----------------------------------------------------------------------------
(* SpecExtract: the loop of _extract_elements, one handle at a time *)

\* what _get_element_data returns for an element
Element(tag, type, id, name, className, placeholder, text, testid, href, visible, enabled) ==
    [tagName |-> tag, type |-> type, id |-> id, name |-> name, className |-> className,
     placeholder |-> placeholder, text |-> text, ariaLabel |-> "", dataTestId |-> testid,
     href |-> href, role |-> "", isVisible |-> visible, isEnabled |-> enabled]

e_user == Element("input", "text", "", "username", "", "Username", "", "", "", TRUE, TRUE)
e_pass == Element("input", "password", "", "password", "", "", "", "", "", TRUE, TRUE)
e_button == Element("button", "submit", "submit", "", "", "", "Login", "", "", TRUE, TRUE)
e_submit == Element("input", "submit", "", "submit", "", "", "", "", "", TRUE, TRUE)
e_tested == Element("button", "submit", "submit", "", "", "", "Login", "go", "", TRUE, TRUE)
e_div == Element("div", "", "main", "", "", "", "", "", "", TRUE, TRUE)
e_link == Element("a", "", "", "", "btn help", "", "click here", "", "/help", TRUE, TRUE)
e_hidden == Element("input", "password", "pw", "", "", "", "", "", "", FALSE, TRUE)
e_disabled == Element("input", "email", "mail", "", "", "", "", "", "", TRUE, FALSE)

Catalogue == {e_user, e_pass, e_button, e_submit, e_tested, e_div, e_link, e_hidden,
              e_disabled}

\* the most elements of a page
MaxDom == 2

Doms == UNION {[1..n -> Catalogue] : n \in 0..MaxDom}

NoHandle == [seen |-> FALSE, i |-> 0, bag |-> <<>>, before |-> <<>>]

NoClass == [role |-> "none", confidence |-> 0]
NoSel == [raised |-> FALSE, value |-> "<none>"]
NoBag == [tagName |-> Absent, type |-> Absent, id |-> Absent, name |-> Absent,
          className |-> Absent, placeholder |-> Absent, text |-> Absent,
          ariaLabel |-> Absent, dataTestId |-> Absent]

pg_blank == [title |-> "", dom |-> <<>>]

NoUse == [step |-> 0, role |-> "none", name |-> "", selector |-> "", confidence |-> 0]
NoStep == [step |-> 0, branch |-> "none", failed |-> FALSE]

\* the results dictionary process_test_case starts with; 'error' is not a key
NewResults ==
    [status |-> "running", page_objects |-> <<>>, generated_script |-> <<>>,
     execution_log |-> <<>>, screenshots |-> <<>>, error |-> Absent]

NoReport == [written |-> FALSE, status |-> ""]
NoScripts == [page_objects |-> <<>>, playwright_test |-> <<>>]

\* nothing was saved, cleaned up or generated after the run
NothingAfter ==
    /\ report = NoReport
    /\ cleanups = 0
    /\ mcp = NoScripts

\* no run of process_test_case is under way
RunIdle ==
    /\ pc = "idle"
    /\ browser = pg_blank
    /\ test_steps = <<>>
    /\ page_objects = <<>>
    /\ results = NewResults
    /\ lastUse = NoUse
    /\ lastStep = NoStep
    /\ NothingAfter

\* no call of a pure function is under way
PureIdle ==
    /\ pcall = "new"
    /\ cls = NoClass
    /\ sel = NoSel

\* no detector is under observation: the table is the constructed one
DetectorIdle ==
    /\ detector = element_patterns
    /\ calls = <<>>

NoName == [called |-> FALSE, element_type |-> "", index |-> 0, value |-> ""]

\* no call of _generate_element_name is under way
NameIdle == ename = NoName

ExtractIdle ==
    /\ xdom = <<>>
    /\ xpos = 1
    /\ elements = <<>>
    /\ xlog = <<>>
    /\ xlast = NoHandle

InitExtract ==
    /\ xdom \in Doms
    /\ xpos = 1
    /\ elements = <<>>
    /\ xlog = <<>>
    /\ xlast = NoHandle
    /\ bag = NoBag
    /\ PureIdle
    /\ RunIdle
    /\ DetectorIdle
    /\ NameIdle

\* an iteration that ends in `continue`
ExtractSkip ==
    /\ xpos <= Len(Scan(xdom))
    /\ LET h == Scan(xdom)[xpos]
       IN  /\ AddElement(elements, h) = elements
           /\ ~Accepted(h.bag) \/ _generate_robust_selector(h.bag).raised
           /\ xlast' = [seen |-> TRUE, i |-> h.i, bag |-> h.bag, before |-> elements]
    /\ xpos' = xpos + 1
    /\ UNCHANGED <<xdom, elements, xlog>>
    /\ UNCHANGED <<varsPure, varsRun, varsDetector, varsName>>

\* an iteration that stores an ElementInfo
ExtractStore ==
    /\ xpos <= Len(Scan(xdom))
    /\ LET h == Scan(xdom)[xpos]
       IN  /\ Accepted(h.bag)
           /\ ~_generate_robust_selector(h.bag).raised
           /\ elements' = AddElement(elements, h)
           /\ xlog' = Append(xlog, [name |-> NameOf(elements, h), i |-> h.i, bag |-> h.bag,
                                    selector |-> _generate_robust_selector(h.bag).value])
           /\ xlast' = [seen |-> TRUE, i |-> h.i, bag |-> h.bag, before |-> elements]
    /\ xpos' = xpos + 1
    /\ UNCHANGED xdom
    /\ UNCHANGED <<varsPure, varsRun, varsDetector, varsName>>

NextExtract == ExtractSkip \/ ExtractStore

SpecExtract == InitExtract /\ [][NextExtract]_vars

----------------------------------------------------------------------------
(* SmartAutomationModel: the steps of a run and the generated script *)

e_pin == Element("input", "password", "pin", "", "", "", "", "", "", TRUE, TRUE)

\* the pages the site serves: what page.title() and the DOM are
pg_login == [title |-> "Login", dom |-> <<e_user, e_pass, e_button>>]
pg_login2 == [title |-> "Login", dom |-> <<e_user, e_pin, e_pass>>]
pg_dash == [title |-> "Dashboard - Home", dom |-> <<e_pin, e_submit, e_div>>]

Pages == {pg_blank, pg_login, pg_login2, pg_dash}

\* a step of test_steps that is not a string (a number of the JSON file)
NonString == "<non-string>"

StepTexts == {"Navigate to URL", "fill the email", "fill the password",
              "click on Sign in", "Verify dashboard loads successfully",
              "Wait for the page", NonString}

\* the most steps of a test case
MaxSteps == 3

\* SmartPageObjectGenerator.analyze_page; the url pattern and the actions of the
\* PageObject are left out
analyze_page(p) ==
    [page_name |-> _sanitize_name(IF p.title # "" THEN p.title ELSE "UnknownPage"),
     elements |-> _extract_elements(p.dom)]

\* the analyses of the pages, computed once
Analysis == [p \in Pages |-> analyze_page(p)]

_serialize_page_object(page_obj) ==
    [page_name |-> page_obj.page_name,
     elements |-> [k \in 1..Len(page_obj.elements) |->
                     [name |-> page_obj.elements[k].name,
                      info |-> [selector |-> page_obj.elements[k].info.selector,
                                type |-> page_obj.elements[k].info.element_type,
                                confidence |-> page_obj.elements[k].info.confidence,
                                text |-> page_obj.elements[k].info.text_content]]]]

\* the (name, element_info) pairs of one type in the elements of one page object
OfType(elems, element_type) ==
    SelectSeq(elems, LAMBDA e : e.info.element_type = element_type)

RECURSIVE FindFrom(_, _, _)
FindFrom(pos, k, element_type) ==
    IF k > Len(pos) THEN <<>>
    ELSE OfType(pos[k].info.elements, element_type) \o FindFrom(pos, k + 1, element_type)

_find_elements_by_type(pos, element_type) == FindFrom(pos, 1, element_type)

\* max(list, key=confidence) keeping the last of the items of the greatest key
RECURSIVE MaxByConfidence_Last(_)
MaxByConfidence_Last(list) ==
    IF Len(list) = 1 THEN list[1]
    ELSE LET rest == MaxByConfidence_Last(Tail(list))
         IN  IF list[1].info.confidence > rest.info.confidence THEN list[1] ELSE rest

\* max(list, key=lambda x: x[1].confidence): the first item of the greatest key
RECURSIVE MaxByConfidence(_)
MaxByConfidence(list) ==
    IF Len(list) = 1 THEN list[1]
    ELSE LET rest == MaxByConfidence(Tail(list))
         IN  IF rest.info.confidence > list[1].info.confidence THEN rest ELSE list[1]

\* the branch of _execute_smart_steps a step takes
ExecutorBranch(step) ==
    LET t == Lower(step)
    IN  IF step = NonString THEN "raise"   \* step.lower(): AttributeError
        ELSE IF Contains("navigate", t) \/ Contains("url", t) THEN "navigate"
        ELSE IF Contains("email", t) /\ Contains("fill", t) THEN "fill_email"
        ELSE IF Contains("password", t) /\ Contains("fill", t) THEN "fill_password"
        ELSE IF Contains("sign in", t) \/ Contains("login", t) \/ Contains("click", t)
             THEN "click_submit"
        ELSE IF Contains("verify", t) \/ Contains("dashboard", t) THEN "verify"
        ELSE "none"

\* the branch of the step loop of _generate_automation_script
GeneratorBranch(step) ==
    LET t == Lower(step)
    IN  IF step = NonString THEN "raise"   \* step.lower(): AttributeError
        ELSE IF Contains("navigate", t) THEN "navigate"
        ELSE IF Contains("email", t) /\ Contains("fill", t) THEN "fill_email"
        ELSE IF Contains("password", t) /\ Contains("fill", t) THEN "fill_password"
        ELSE IF Contains("sign in", t) \/ Contains("click", t) THEN "click_submit"
        ELSE "none"

RoleOf(branch) ==
    CASE branch = "fill_email" -> "email"
      [] branch = "fill_password" -> "password"
      [] branch = "click_submit" -> "submit"
      [] OTHER -> "none"

\* the lines _generate_automation_script emits for one step, as
\* [step, action, selector]; a step without a line has action "comment"
ScriptLine(pos, i, step) ==
    LET b == GeneratorBranch(step)
        found == _find_elements_by_type(pos, RoleOf(b))
    IN  IF b = "navigate" THEN [step |-> i, action |-> "goto", selector |-> ""]
        ELSE IF b \in {"fill_email", "fill_password"} /\ found # <<>>
             THEN [step |-> i, action |-> "fill",
                   selector |-> MaxByConfidence(found).info.selector]
        ELSE IF b = "click_submit" /\ found # <<>>
             THEN [step |-> i, action |-> "click",
                   selector |-> MaxByConfidence(found).info.selector]
        ELSE [step |-> i, action |-> "comment", selector |-> ""]

Init ==
    /\ pc = "init"
    /\ browser = pg_blank
    /\ test_steps = <<>>
    /\ page_objects = <<>>
    /\ results = NewResults
    /\ lastUse = NoUse
    /\ lastStep = NoStep
    /\ NothingAfter
    /\ bag = NoBag
    /\ PureIdle
    /\ ExtractIdle
    /\ DetectorIdle
    /\ NameIdle

\* self.page_objects[name] = page_obj and its serialized copy in results
StorePage(pos, res, page_obj) ==
    [page_objects |-> DictPut(pos, page_obj.page_name, page_obj),
     results |-> [res EXCEPT !.page_objects =
                      DictPut(@, page_obj.page_name, _serialize_page_object(page_obj))]]

\* _analyze_current_page
_analyze_current_page(pos, res, p) ==
    IF ~HasKey(pos, Analysis[p].page_name)
    THEN StorePage(pos, res, Analysis[p])
    ELSE [page_objects |-> pos, results |-> res]

StepHeader(i, step) == "Step " \o ToStr(i) \o ": " \o step
StepFailure(i, msg) == "Step " \o ToStr(i) \o " failed: " \o msg

Logged(res, line) == [res EXCEPT !.execution_log = Append(@, line)]

Screenshot(res, i) ==
    [res EXCEPT !.screenshots = Append(@, "step_" \o ToStr(i) \o "_screenshot.png")]

\* the step that begins: its number and its text
BeginStep(step, branch) ==
    /\ pc = "steps"
    /\ Len(test_steps) < MaxSteps
    /\ step \in StepTexts
    /\ ExecutorBranch(step) = branch
    /\ test_steps' = Append(test_steps, step)

\* the rest of the loop body after the branch: screenshot and page analysis
FinishStep(i, pos, res, p) ==
    LET a == _analyze_current_page(pos, Screenshot(res, i), p)
    IN  /\ page_objects' = a.page_objects
        /\ results' = a.results

\* the except clause of the loop body
FailStep(i, branch, res, msg) ==
    /\ results' = Logged(res, StepFailure(i, msg))
    /\ lastStep' = [step |-> i, branch |-> branch, failed |-> TRUE]
    /\ UNCHANGED <<page_objects, browser>>

\* a step of the navigate branch: _smart_navigate, or page.goto raises
StepNavigate ==
    \E step \in StepTexts :
        LET i == Len(test_steps) + 1
            res == Logged(results, StepHeader(i, step))
        IN  /\ BeginStep(step, "navigate")
            /\ \/ \E p \in Pages :
                    LET st == StorePage(page_objects, res, Analysis[p])
                    IN  /\ browser' = p
                        /\ FinishStep(i, st.page_objects, st.results, p)
                        /\ lastStep' = [step |-> i, branch |-> "navigate", failed |-> FALSE]
               \/ FailStep(i, "navigate", res, "Timeout")
            /\ UNCHANGED <<pc, lastUse>>
            /\ UNCHANGED varsAfter
            /\ UNCHANGED <<varsPure, varsExtract, varsDetector, varsName>>

\* a step of a fill branch: _smart_fill_email or _smart_fill_password
StepFill ==
    \E step \in StepTexts, branch \in {"fill_email", "fill_password"} :
        LET i == Len(test_steps) + 1
            res == Logged(results, StepHeader(i, step))
            found == _find_elements_by_type(page_objects, RoleOf(branch))
        IN  /\ BeginStep(step, branch)
            /\ IF found = <<>>
               THEN /\ FailStep(i, branch, res,
                                "No " \o RoleOf(branch) \o " field detected by smart model")
                    /\ UNCHANGED lastUse
               ELSE LET best == MaxByConfidence(found)
                    IN  /\ lastUse' = [step |-> i, role |-> RoleOf(branch),
                                       name |-> best.name,
                                       selector |-> best.info.selector,
                                       confidence |-> best.info.confidence]
                        /\ \/ /\ FinishStep(i, page_objects, res, browser)
                              /\ lastStep' = [step |-> i, branch |-> branch, failed |-> FALSE]
                              /\ UNCHANGED browser
                           \/ FailStep(i, branch, res, "Timeout")
            /\ UNCHANGED pc
            /\ UNCHANGED varsAfter
            /\ UNCHANGED <<varsPure, varsExtract, varsDetector, varsName>>

\* a step of the click branch: _smart_click_submit
StepClickSubmit ==
    \E step \in StepTexts :
        LET i == Len(test_steps) + 1
            res == Logged(results, StepHeader(i, step))
            found == _find_elements_by_type(page_objects, "submit")
        IN  /\ BeginStep(step, "click_submit")
            /\ IF found = <<>>
               THEN /\ FailStep(i, "click_submit", res,
                                "No submit button detected by smart model")
                    /\ UNCHANGED lastUse
               ELSE LET best == MaxByConfidence(found)
                    IN  /\ lastUse' = [step |-> i, role |-> "submit",
                                       name |-> best.name,
                                       selector |-> best.info.selector,
                                       confidence |-> best.info.confidence]
                        /\ \/ \E p \in Pages :
                                /\ browser' = p
                                /\ FinishStep(i, page_objects, res, p)
                                /\ lastStep' = [step |-> i, branch |-> "click_submit",
                                                failed |-> FALSE]
                           \/ FailStep(i, "click_submit", res, "Timeout")
            /\ UNCHANGED pc
            /\ UNCHANGED varsAfter
            /\ UNCHANGED <<varsPure, varsExtract, varsDetector, varsName>>

\* a step of the verify branch (_smart_verify_success stores nothing) or of no
\* branch
StepVerifyOrNone ==
    \E step \in StepTexts, branch \in {"verify", "none"} :
        LET i == Len(test_steps) + 1
            res == Logged(results, StepHeader(i, step))
        IN  /\ BeginStep(step, branch)
            /\ FinishStep(i, page_objects, res, browser)
            /\ lastStep' = [step |-> i, branch |-> branch, failed |-> FALSE]
            /\ UNCHANGED <<pc, browser, lastUse>>
            /\ UNCHANGED varsAfter
            /\ UNCHANGED <<varsPure, varsExtract, varsDetector, varsName>>

\* a step that is not a string: step.lower() raises inside the try of the loop
StepRaises ==
    LET i == Len(test_steps) + 1
        res == Logged(results, StepHeader(i, NonString))
    IN  /\ BeginStep(NonString, "raise")
        /\ FailStep(i, "raise", res, "AttributeError")
        /\ UNCHANGED <<pc, lastUse>>
        /\ UNCHANGED varsAfter
        /\ UNCHANGED <<varsPure, varsExtract, varsDetector, varsName>>

\* an except clause that records the error and leaves the status as it is
Excepted_NoStatus(res, msg) == [res EXCEPT !.error = msg]

\* the except clause of process_test_case
Excepted(res, msg) == [res EXCEPT !.status = "failed", !.error = msg]

\* _initialize_browser: the browser is launched, or the launch raises
InitializeBrowser ==
    /\ pc = "init"
    /\ \/ pc' = "steps" /\ UNCHANGED results
       \/ pc' = "finally" /\ results' = Excepted(results, "launch failed")
    /\ UNCHANGED <<browser, test_steps, page_objects, lastUse, lastStep>>
    /\ UNCHANGED varsAfter
    /\ UNCHANGED <<varsPure, varsExtract, varsDetector, varsName>>

HasNonString(steps) == \E i \in 1..Len(steps) : steps[i] = NonString

\* _generate_automation_script, after the last step; step.lower() of a step that
\* is not a string raises, outside any try of the function
GenerateScript ==
    /\ pc = "steps"
    /\ IF HasNonString(test_steps)
       THEN /\ results' = Excepted(results, "AttributeError")
            /\ pc' = "finally"
       ELSE /\ results' = [results EXCEPT !.generated_script =
                             [i \in 1..Len(test_steps) |->
                                 ScriptLine(page_objects, i, test_steps[i])]]
            /\ pc' = "generated"
    /\ UNCHANGED <<browser, test_steps, page_objects, lastUse, lastStep>>
    /\ UNCHANGED varsAfter
    /\ UNCHANGED <<varsPure, varsExtract, varsDetector, varsName>>

\* the report _save_generated_files dumps: results['status'] as it is then
ReportOf(res) == [written |-> TRUE, status |-> res.status]

\* _save_generated_files and, after it, results['status'] = 'completed'; or
\* open() raises before the report is written
SaveGeneratedFiles ==
    /\ pc = "generated"
    /\ \/ /\ report' = ReportOf(results)
          /\ results' = [results EXCEPT !.status = "completed"]
       \/ /\ results' = Excepted(results, "OSError")
          /\ UNCHANGED report
    /\ pc' = "finally"
    /\ UNCHANGED <<browser, test_steps, page_objects, lastUse, lastStep, cleanups, mcp>>
    /\ UNCHANGED <<varsPure, varsExtract, varsDetector, varsName>>

\* the finally clause: _cleanup, and the return of results
Cleanup ==
    /\ pc = "finally"
    /\ cleanups' = cleanups + 1
    /\ pc' = "returned"
    /\ UNCHANGED <<browser, test_steps, page_objects, results, lastUse, lastStep, report, mcp>>
    /\ UNCHANGED <<varsPure, varsExtract, varsDetector, varsName>>

\* the finally clause when browser.close() raises: the exception leaves
\* process_test_case, which returns nothing
CleanupRaises ==
    /\ pc = "finally"
    /\ results.error # "launch failed"     \* self.browser is set
    /\ cleanups' = cleanups + 1
    /\ pc' = "raised"
    /\ UNCHANGED <<browser, test_steps, page_objects, results, lastUse, lastStep, report, mcp>>
    /\ UNCHANGED <<varsPure, varsExtract, varsDetector, varsName>>

\* the branch of _generate_playwright_test_script a step takes
PlaywrightBranch(step) ==
    LET t == Lower(step)
    IN  IF step = NonString THEN "raise"   \* step.lower(): AttributeError
        ELSE IF Contains("navigate", t) THEN "navigate"
        ELSE IF Contains("email", t) /\ Contains("fill", t) THEN "fill_email"
        ELSE IF Contains("password", t) /\ Contains("fill", t) THEN "fill_password"
        ELSE IF Contains("sign in", t) \/ Contains("login", t) \/ Contains("click", t)
             THEN "click_submit"
        ELSE IF Contains("verify", t) \/ Contains("dashboard", t) THEN "verify"
        ELSE "none"

\* the branch of execute_test_steps in the script of automation_script_generator
TemplateBranch(step) ==
    LET t == Lower(step)
    IN  IF step = NonString THEN "raise"   \* step.lower(): AttributeError
        ELSE IF Contains("navigate", t) \/ Contains("url", t) THEN "navigate"
        ELSE IF Contains("email", t) /\ Contains("fill", t) THEN "fill_email"
        ELSE IF Contains("password", t) /\ Contains("fill", t) THEN "fill_password"
        ELSE IF Contains("sign in", t) \/ Contains("login", t) \/ Contains("click", t)
             THEN "click_submit"
        ELSE IF Contains("verify", t) \/ Contains("dashboard", t) THEN "verify"
        ELSE "none"

\* the serialized elements of one type, in the order of the serialized page
\* objects and of their elements
RECURSIVE SerializedOfType(_, _, _)
SerializedOfType(spos, k, element_type) ==
    IF k > Len(spos) THEN <<>>
    ELSE SelectSeq(spos[k].info.elements, LAMBDA e : e.info.type = element_type)
             \o SerializedOfType(spos, k + 1, element_type)

Fallbacks(element_type) ==
    CASE element_type = "email" ->
             "input[type=\"email\"], input[name*=\"email\" i], input[name*=\"username\" i]"
      [] element_type = "password" -> "input[type=\"password\"]"
      [] element_type = "submit" ->
             "button[type=\"submit\"], button:has-text(\"Login\"), button:has-text(\"Sign in\")"
      [] OTHER -> "[data-testid=\"" \o element_type \o "\"]"

\* _get_best_selector over self.page_objects, the serialized page objects: the
\* loops return at the first element of the type
_get_best_selector(spos, element_type) ==
    LET found == SerializedOfType(spos, 1, element_type)
    IN  IF found # <<>> THEN found[1].info.selector ELSE Fallbacks(element_type)

\* the lines _generate_playwright_test_script emits for one step, as
\* [step, branch, action, selector]
PlaywrightLine(spos, i, step) ==
    LET b == PlaywrightBranch(step)
    IN  [step |-> i, branch |-> b,
         action |-> CASE b = "navigate" -> "goto"
                      [] b \in {"fill_email", "fill_password"} -> "fill"
                      [] b = "click_submit" -> "click"
                      [] b = "verify" -> "expect"
                      [] OTHER -> "comment",
         selector |-> IF RoleOf(b) = "none" THEN ""
                      ELSE _get_best_selector(spos, RoleOf(b))]

\* generate_playwright_script after process_test_case returned: self.page_objects
\* is the serialized page objects of the results, whatever their status, and the
\* test script is generated from the steps; step.lower() of a step that is not a
\* string raises
GeneratePlaywrightScripts ==
    /\ pc = "returned"
    /\ IF HasNonString(test_steps)
       THEN /\ mcp' = [mcp EXCEPT !.page_objects = results.page_objects]
            /\ pc' = "raised"
       ELSE /\ mcp' = [page_objects |-> results.page_objects,
                       playwright_test |->
                           [i \in 1..Len(test_steps) |->
                               PlaywrightLine(results.page_objects, i, test_steps[i])]]
            /\ pc' = "scripted"
    /\ UNCHANGED <<browser, test_steps, page_objects, results, lastUse, lastStep,
                   report, cleanups>>
    /\ UNCHANGED <<varsPure, varsExtract, varsDetector, varsName>>

Next ==
    \/ InitializeBrowser
    \/ StepNavigate \/ StepFill \/ StepClickSubmit \/ StepVerifyOrNone \/ StepRaises
    \/ GenerateScript
    \/ SaveGeneratedFiles
    \/ Cleanup \/ CleanupRaises
    \/ GeneratePlaywrightScripts

Spec == Init /\ [][Next]_vars

----------------------------------------------------------------------------
(* SpecPure: one call of a pure function on one attribute bag *)

TagNames == {Absent, "", "input", "button", "a"}
Types == {Absent, "", "password", "email", "text", "submit", "link"}
Ids == {Absent, "y"}
Names == {Absent, "password"}
ClassNames == {Absent, "  ", "btn login-btn primary"}
Placeholders == {Absent, "Username"}
Texts == {Absent, "", "Sign in", "password pass pwd secret auth",
          "login signin submit", "Say \"go\""}
AriaLabels == {Absent, "link href navigate goto click"}
DataTestIds == {Absent, "", "x"}

Bags ==
    [tagName : TagNames, type : Types, id : Ids, name : Names, className : ClassNames,
     placeholder : Placeholders, text : Texts, ariaLabel : AriaLabels,
     dataTestId : DataTestIds]

InitPure ==
    /\ bag \in Bags
    /\ PureIdle
    /\ ExtractIdle
    /\ RunIdle
    /\ DetectorIdle
    /\ NameIdle

ClassifyElement ==
    /\ pcall = "new"
    /\ cls' = classify_element(bag)
    /\ pcall' = "classified"
    /\ UNCHANGED <<bag, sel>>
    /\ UNCHANGED <<varsExtract, varsRun, varsDetector, varsName>>

GenerateRobustSelector ==
    /\ pcall = "new"
    /\ sel' = _generate_robust_selector(bag)
    /\ pcall' = "selected"
    /\ UNCHANGED <<bag, cls>>
    /\ UNCHANGED <<varsExtract, varsRun, varsDetector, varsName>>

NextPure == ClassifyElement \/ GenerateRobustSelector

SpecPure == InitPure /\ [][NextPure]_vars

----------------------------------------------------------------------------
(* SpecDetector: a sequence of calls of classify_element on one detector *)

PureBag(tag, type, name, placeholder, text) ==
    [tagName |-> tag, type |-> type, id |-> Absent, name |-> name, className |-> Absent,
     placeholder |-> placeholder, text |-> text, ariaLabel |-> Absent,
     dataTestId |-> Absent]

CallBags ==
    { PureBag("input", "password", "password", Absent, Absent),
      PureBag("input", "text", Absent, "Username", ""),
      PureBag("button", "submit", Absent, Absent, "Sign in"),
      PureBag("button", "submit", Absent, Absent, "Sign in login"),
      PureBag("button", Absent, Absent, Absent, "login signin submit"),
      PureBag("a", Absent, Absent, Absent, "click here"),
      PureBag("div", Absent, Absent, Absent, "") }

\* the most calls made on the detector
MaxCalls == 3

InitDetector ==
    /\ detector = element_patterns
    /\ calls = <<>>
    /\ bag = NoBag
    /\ PureIdle
    /\ ExtractIdle
    /\ RunIdle
    /\ NameIdle

\* one call of classify_element: it reads self.element_patterns and the bag and
\* assigns to locals only
DetectorCall ==
    /\ Len(calls) < MaxCalls
    /\ \E b \in CallBags :
          calls' = Append(calls, [bag |-> b, result |-> DetectorClassify(detector, b)])
    /\ UNCHANGED detector
    /\ UNCHANGED <<varsPure, varsExtract, varsRun, varsName>>

NextDetector == DetectorCall

SpecDetector == InitDetector /\ [][NextDetector]_vars

----------------------------------------------------------------------------
(* SpecName: one call of _generate_element_name *)

Text29 == "Continue to your account page"
Text30 == "Continue to your account pages"

NameTestIds == {Absent, "", "go", "!"}
NameIds == {Absent, "", "main id", "2fa"}
NameNames == {Absent, "", "user"}
NameTexts == {Absent, "", "Sign in", "Log - in", "???", "0", Text29, Text30}

NameBags == [dataTestId : NameTestIds, id : NameIds, name : NameNames, text : NameTexts]

\* the greatest index of a handle in its scan
MaxIndex == 1

InitName ==
    /\ bag \in NameBags
    /\ ename = NoName
    /\ PureIdle
    /\ ExtractIdle
    /\ RunIdle
    /\ DetectorIdle

GenerateElementName ==
    /\ ~ename.called
    /\ \E element_type \in {"email", "password", "submit", "link", "other"},
          index \in 0..MaxIndex :
          ename' = [called |-> TRUE, element_type |-> element_type, index |-> index,
                    value |-> _generate_element_name(element_type, bag, index)]
    /\ UNCHANGED <<bag, pcall, cls, sel>>
    /\ UNCHANGED <<varsExtract, varsRun, varsDetector>>

NextName == GenerateElementName

SpecName == InitName /\ [][NextName]_vars

----------------------------------------------------------------------------
(* Properties of the pure functions (SpecPure) *)

\* C2: every bag whose declared type is "password" is classified as password with
\* confidence >= 0.95, whatever its other attributes are; the bag {tagName input,
\* type password, name password} is classified (password, 0.95).
C2_PasswordType ==
    (pcall = "classified" /\ bag.type = "password") =>
        /\ cls.role = "password"
        /\ cls.confidence >= Conf(950)
        /\ (bag.tagName = "input" /\ bag.name = "password") => cls.confidence = Conf(950)

\* a password-typed button whose text holds the login/submit keywords was classified
C2_Witness ==
    /\ pcall = "classified" /\ bag.type = "password" /\ bag.tagName = "button"
    /\ bag.text = "login signin submit" /\ cls.role = "password"

\* C3: every bag whose declared type is "email" is classified as email with
\* confidence >= 0.9, also a button with login/submit keywords and a blob that
\* holds every password keyword.
C3_EmailType ==
    (pcall = "classified" /\ bag.type = "email") =>
        cls.role = "email" /\ cls.confidence >= Conf(900)

\* an email-typed button with the login/submit keywords, and an email-typed bag
\* whose blob holds every password keyword, were classified
C3_Witness ==
    /\ pcall = "classified" /\ bag.type = "email" /\ cls.role = "email"
    /\ \/ bag.tagName = "button" /\ bag.text = "login signin submit"
       \/ bag.text = "password pass pwd secret auth" /\ bag.name = "password"

\* C4: _generate_robust_selector returns a non-empty string for every bag.
C4_SelectorNonEmpty ==
    (pcall = "selected" /\ ~sel.raised) => sel.value # ""

\* the candidate the priority order names for a bag, its tag read as tag
PriorityChoice(d, tag) ==
    IF Truthy(d, "dataTestId") THEN "[data-testid=\"" \o d["dataTestId"] \o "\"]"
    ELSE IF Truthy(d, "id") THEN "#" \o d["id"]
    ELSE IF Truthy(d, "name") THEN "[name=\"" \o d["name"] \o "\"]"
    ELSE IF Truthy(d, "type") THEN tag \o "[type=\"" \o d["type"] \o "\"]"
    ELSE IF Truthy(d, "className") /\ Split(d["className"]) # <<>>
         THEN tag \o "." \o Join(".", FirstTwo(Split(d["className"])))
    ELSE IF Truthy(d, "text") /\ Len(d["text"]) < 50 /\ tag \in {"button", "a"}
         THEN tag \o ":has-text(\"" \o ReplaceChar(d["text"], "\"", "\\\"") \o "\")"
    ELSE tag

\* C5: the selector returned is the candidate of highest priority that applies:
\* data-testid, id, name, tag[type], tag.class1.class2, text-based, bare tag; a bag
\* that holds a tagName always gets a selector returned.
C5_SelectorPriority ==
    pcall = "selected" =>
        /\ bag.tagName # Absent => ~sel.raised
        /\ ~sel.raised => sel.value = PriorityChoice(bag, Get(bag, "tagName", "unknown"))

\* a bag with data-testid x and id y got the data-testid selector
C5_Witness ==
    /\ pcall = "selected" /\ bag.dataTestId = "x" /\ bag.id = "y"
    /\ bag.type = "submit" /\ bag.tagName = "button"
    /\ sel = Returned("[data-testid=\"x\"]")

Roles == {"email", "password", "submit", "link", "other"}

\* C12: for every bag, the confidence classify_element returns lies in [0, 1] and
\* the role is one of email, password, submit, link, other.
C12_Range ==
    pcall = "classified" =>
        /\ cls.confidence >= 0
        /\ cls.confidence <= Conf(1000)
        /\ cls.role \in Roles

\* a bag without a declared type whose blob holds every password keyword was
\* classified by its keywords alone, at 0.95 * 0.8 * 5/5
C12_Witness ==
    /\ pcall = "classified" /\ bag.type = Absent
    /\ bag.text = "password pass pwd secret auth" /\ bag.name = "password"
    /\ cls = [role |-> "password", confidence |-> Conf(760)]

\* the bag with every absent key present with the empty string
Filled(d) == [k \in DOMAIN d |-> IF d[k] = Absent THEN "" ELSE d[k]]

\* C14: for a bag with any of its attributes absent, classify_element returns
\* what it returns for the bag that holds each absent attribute as ''.
C14_AbsentAsEmpty ==
    pcall = "classified" => cls = classify_element(Filled(bag))

\* a bag that holds a placeholder and neither type, tagName nor text was
\* classified by the keywords of the placeholder
C14_Witness ==
    /\ pcall = "classified"
    /\ bag.type = Absent /\ bag.tagName = Absent /\ bag.text = Absent
    /\ bag.placeholder = "Username"
    /\ cls.role = "email" /\ cls.confidence < Conf(900)

\* C15: _generate_robust_selector does not raise, whichever attributes are absent.
C15_NeverRaises ==
    pcall = "selected" => ~sel.raised

\* text, placeholder, name, id, className, ariaLabel and dataTestId are all
\* empty or absent
EmptyBlob(d) ==
    \A key \in {"text", "placeholder", "name", "id", "className", "ariaLabel", "dataTestId"} :
        ~Truthy(d, key)

\* C16 as stated: a bag whose blob is empty is classified (other, 0).
C16_EmptyBlobAsStated ==
    (pcall = "classified" /\ EmptyBlob(bag)) => cls = [role |-> "other", confidence |-> 0]

\* C16: a bag whose blob is empty and whose declared type, lowercased, is none of
\* email, password, submit, link is classified (other, 0).
C16_EmptyBlob ==
    (/\ pcall = "classified"
     /\ EmptyBlob(bag)
     /\ Lower(Get(bag, "type", "")) \notin {"email", "password", "submit", "link"})
        => cls = [role |-> "other", confidence |-> 0]

\* a text-typed button with an empty blob was classified (other, 0)
C16_Witness ==
    /\ pcall = "classified" /\ EmptyBlob(bag)
    /\ bag.type = "text" /\ bag.tagName = "button"
    /\ cls = [role |-> "other", confidence |-> 0]

\* the candidate confidences of the four patterns, in the order of the table
Candidates(d) ==
    [i \in 1..Len(element_patterns) |->
        TypeConfidence(element_patterns[i], Lower(Get(d, "type", "")),
                       Lower(Get(d, "tagName", "")), TextContent(d))]

\* C17: when some candidate confidence is above 0, classify_element returns the
\* greatest candidate confidence and the role of the first pattern, in the order
\* email, password, submit, link, that reaches it.
C17_FirstMaximum ==
    pcall = "classified" =>
        LET c == Candidates(bag)
        IN  (\E i \in DOMAIN c : c[i] > 0) =>
                \E i \in DOMAIN c :
                    /\ \A j \in DOMAIN c : c[j] <= c[i]
                    /\ \A j \in 1..(i - 1) : c[j] < c[i]
                    /\ cls = [role |-> element_patterns[i].type, confidence |-> c[i]]

\* three patterns scored above 0 (email and password by keywords, submit by the
\* button rule) and the third, the greatest, was returned
C17_Witness ==
    /\ pcall = "classified"
    /\ Candidates(bag)[1] > 0
    /\ Candidates(bag)[2] > Candidates(bag)[1]
    /\ Candidates(bag)[3] > Candidates(bag)[2]
    /\ cls.role = "submit" /\ cls.confidence = Candidates(bag)[3]

\* the bag is one of declared type submit without data-testid, id and name, as
\* _get_element_data makes it (tagName is set)
SubmitTyped(d) ==
    /\ d["type"] = "submit"
    /\ d["tagName"] # Absent
    /\ ~Truthy(d, "dataTestId") /\ ~Truthy(d, "id") /\ ~Truthy(d, "name")

\* C18: a bag of declared type submit without data-testid, id and name is
\* classified as submit with a confidence of at least 0.85, whatever keywords
\* its blob holds, and its selector is tag[type="submit"], also when a class
\* candidate and a text candidate apply.
C18_SubmitTyped ==
    /\ (pcall = "classified" /\ SubmitTyped(bag)) =>
           cls.role = "submit" /\ cls.confidence >= Conf(850)
    /\ (pcall = "selected" /\ SubmitTyped(bag)) =>
           sel = Returned(bag.tagName \o "[type=\"submit\"]")

\* the button "Sign in" with classes got button[type="submit"], and the
\* classifier gives it (submit, 0.85) by the button rule
C18_Witness ==
    /\ pcall = "selected" /\ SubmitTyped(bag)
    /\ bag.tagName = "button" /\ bag.text = "Sign in"
    /\ bag.className = "btn login-btn primary"
    /\ sel = Returned("button[type=\"submit\"]")
    /\ classify_element(bag) = [role |-> "submit", confidence |-> Conf(850)]

\* the weights of the roles, in thousandths, in the order of the table
RoleWeights == <<900, 950, 850, 700>>

\* weight x 0.8 x count / |keywords| of the pattern at place i, for the blob
KeywordShare(blob, i) ==
    LET kws == element_patterns[i].keywords
        count == Cardinality({k \in 1..Len(kws) : Contains(kws[k], blob)})
    IN  (Conf(RoleWeights[i]) * 8 * count) \div (10 * Len(kws))

\* the four shares of a bag
KeywordShares(d) ==
    LET blob == TextContent(d) IN [i \in 1..4 |-> KeywordShare(blob, i)]

\* no direct type match and no rule of a role applies to the bag
PlainBag(d) ==
    /\ Lower(Get(d, "type", "")) \notin {"email", "text", "password", "submit", "link"}
    /\ Lower(Get(d, "tagName", "")) # "button"

\* C23: for a bag without a direct type match and without a rule of a role, the
\* confidence is the greatest of weight x 0.8 x count / |keywords| over the four
\* roles, with the weights 0.9, 0.95, 0.85, 0.7; a bag whose declared type is a
\* role gets at least the weight of that role.
C23_KeywordShare ==
    pcall = "classified" =>
        /\ PlainBag(bag) =>
               LET share == KeywordShares(bag)
               IN  /\ \A i \in 1..4 : cls.confidence >= share[i]
                   /\ \E i \in 1..4 : cls.confidence = share[i]
        /\ \A i \in 1..4 :
               Lower(Get(bag, "type", "")) = element_patterns[i].type =>
                   cls.confidence >= Conf(RoleWeights[i])

\* a link without a declared type whose blob holds all five link keywords and
\* two email and three submit keywords was classified (link, 0.7 * 0.8 * 5/5)
C23_Witness ==
    /\ pcall = "classified" /\ PlainBag(bag)
    /\ bag.tagName = "a" /\ bag.text = "login signin submit"
    /\ bag.ariaLabel = "link href navigate goto click"
    /\ KeywordShares(bag)[1] > 0 /\ KeywordShares(bag)[3] > KeywordShares(bag)[1]
    /\ cls = [role |-> "link", confidence |-> Conf(560)]

\* every double quote of the string is preceded by a backslash
QuotesEscaped(str) ==
    \A i \in 1..Len(str) : Chr(str, i) = "\"" => (i > 1 /\ Chr(str, i - 1) = "\\")

\* C24: a text-based selector is returned only for a bag without data-testid,
\* id, name, type and class candidate, whose tag is button or a and whose text is
\* non-empty and shorter than 50 characters; every double quote of the text is
\* escaped with a backslash in the selector.
C24_TextSelector ==
    (pcall = "selected" /\ ~sel.raised /\ Contains(":has-text(", sel.value)) =>
        /\ ~Truthy(bag, "dataTestId") /\ ~Truthy(bag, "id") /\ ~Truthy(bag, "name")
        /\ ~Truthy(bag, "type")
        /\ ~(Truthy(bag, "className") /\ Split(bag.className) # <<>>)
        /\ bag.tagName \in {"button", "a"}
        /\ Truthy(bag, "text") /\ Len(bag.text) < 50
        /\ Len(sel.value) >= Len(bag.tagName) + 13 + Len(bag.text)
        /\ SubSeq(sel.value, 1, Len(bag.tagName) + 11) = bag.tagName \o ":has-text(\""
        /\ SubSeq(sel.value, Len(sel.value) - 1, Len(sel.value)) = "\")"
        /\ QuotesEscaped(SubSeq(sel.value, Len(bag.tagName) + 12, Len(sel.value) - 2))

\* the button with the text Say "go" got a text-based selector with both quotes
\* escaped
C24_Witness ==
    /\ pcall = "selected" /\ bag.tagName = "button" /\ bag.text = "Say \"go\""
    /\ bag.className = "  "
    /\ sel = Returned("button:has-text(\"Say \\\"go\\\"\")")

\* C25: the role is other exactly when the confidence is 0.
C25_OtherIffZero ==
    pcall = "classified" => (cls.role = "other" <=> cls.confidence = 0)

\* a bag with a text and an id that hold no keyword was classified (other, 0)
C25_Witness ==
    /\ pcall = "classified" /\ bag.text = "Sign in" /\ bag.id = "y"
    /\ bag.tagName = "input" /\ bag.type = "text"
    /\ cls = [role |-> "other", confidence |-> 0]

----------------------------------------------------------------------------
(* Properties of _extract_elements (SpecExtract) *)

\* C1: no stored element is ever overwritten or lost: the number of stored
\* elements equals the number of accepted additions, and every accepted addition
\* is still stored under the name it was given, with its original selector.
C1_NoOverwrite ==
    /\ Len(elements) = Len(xlog)
    /\ \A k \in 1..Len(xlog) :
          /\ HasKey(elements, xlog[k].name)
          /\ Lookup(elements, xlog[k].name).selector = xlog[k].selector
          /\ Lookup(elements, xlog[k].name).attributes = xlog[k].bag

Rejected(d) ==
    ~d.isVisible \/ ~d.isEnabled \/ classify_element(d).confidence < Conf(300)

\* C6: every stored element came from a visible and enabled bag and has a
\* confidence >= 0.3; a bag that is invisible, disabled or scores below 0.3 is
\* not added and leaves the dictionary as it was.
C6_OnlyAccepted ==
    /\ \A k \in 1..Len(elements) :
          LET e == elements[k].info
          IN  /\ e.attributes.isVisible
              /\ e.attributes.isEnabled
              /\ e.confidence = classify_element(e.attributes).confidence
              /\ e.confidence >= Conf(300)
    /\ (xlast.seen /\ Rejected(xlast.bag)) => elements = xlast.before

\* the bare div, the disabled input and the hidden input were each skipped
\* while the dictionary held an element
C6_Witness ==
    /\ xlast.seen
    /\ xlast.bag \in {e_div, e_disabled, e_hidden}
    /\ Len(elements) > 0
    /\ elements = xlast.before

TwoSameId ==
    /\ Len(xlog) = 2
    /\ xlog[1].bag.id # ""
    /\ xlog[1].bag.id = xlog[2].bag.id

TwoStoredApart ==
    /\ xlog[1].name = _sanitize_name(xlog[1].bag.id)
    /\ xlog[2].name = _sanitize_name(xlog[1].bag.id) \o "_" \o ToStr(xlog[2].i)
    /\ xlog[1].name # xlog[2].name
    /\ \A k \in 1..2 :
          /\ HasKey(elements, xlog[k].name)
          /\ Lookup(elements, xlog[k].name).selector = xlog[k].selector
          /\ Lookup(elements, xlog[k].name).attributes = xlog[k].bag

\* C7 as stated: two accepted bags with the same id, added one after the other to
\* an empty dictionary, are stored under the sanitized id and under that name
\* suffixed with "_" and the second element's index, and both are retrievable.
C7_SameIdAsStated == TwoSameId => TwoStoredApart

\* C7: two accepted bags with the same id and no data-testid, added one after
\* the other to an empty dictionary, are stored under the sanitized id and under
\* that name suffixed with "_" and the second element's index; the names differ
\* and both elements are retrievable with their own selectors.
C7_SameId ==
    (TwoSameId /\ xlog[1].bag.dataTestId = "" /\ xlog[2].bag.dataTestId = "")
        => TwoStoredApart

\* two buttons with id submit were stored as submit and submit_1
C7_Witness ==
    /\ TwoSameId
    /\ xlog[1].bag = e_button /\ xlog[2].bag = e_button
    /\ xlog[1].name = "submit" /\ xlog[2].name = "submit_1"
    /\ Len(elements) = 2

\* the number of stored elements that were made from the bag
StoredOf(dict, b) == Cardinality({k \in 1..Len(dict) : dict[k].info.attributes = b})

\* C11: in one analysis each element of the page gives rise to at most one stored
\* element, also when several scan selectors match it: the stored elements made
\* from a bag are never more than the elements of the page with that bag.
C11_OnePerElement ==
    \A b \in Catalogue :
        StoredOf(elements, b) <= Cardinality({k \in 1..Len(xdom) : xdom[k] = b})

----------------------------------------------------------------------------
(* Properties of a detector (SpecDetector) *)

WithKeyword(d, k) ==
    [d EXCEPT !["text"] = IF @ \in {Absent, ""} THEN k ELSE @ \o " " \o k]

\* the keywords of the four roles
AllKeywords ==
    UNION {{element_patterns[i].keywords[j] : j \in 1..Len(element_patterns[i].keywords)} :
             i \in 1..Len(element_patterns)}

\* C26: adding a keyword of any role to the text of a bag never lowers the
\* confidence: of two bags classified of which one is the other with a keyword
\* added to its text, the one with the keyword has no lower a confidence.
C26_Monotone ==
    \A i, j \in 1..Len(calls) :
        \A k \in AllKeywords :
            calls[j].bag = WithKeyword(calls[i].bag, k) =>
                calls[j].result.confidence >= calls[i].result.confidence

----------------------------------------------------------------------------
(* Properties of _generate_element_name (SpecName) *)

\* the name made of the role and the text
TextName(element_type, text) ==
    element_type \o "_" \o StripUnderscores(SubNonAlnum(text))

HasAlnum(text) == \E i \in 1..Len(text) : Chr(text, i) \in Alnum

\* the text is one a name is derived from
TextUsable(d) == Truthy(d, "text") /\ Len(d["text"]) < 30 /\ HasAlnum(d["text"])

\* the name the order data-testid, id, name, text, role_index gives, a text
\* counting as available when textAvailable
NameByPriority(element_type, d, index, textAvailable) ==
    IF Truthy(d, "dataTestId") THEN _sanitize_name(d["dataTestId"])
    ELSE IF Truthy(d, "id") THEN _sanitize_name(d["id"])
    ELSE IF Truthy(d, "name") THEN _sanitize_name(d["name"])
    ELSE IF textAvailable THEN TextName(element_type, d["text"])
    ELSE element_type \o "_" \o ToStr(index)

\* C19 as stated: the name comes from the first non-empty source in the order
\* data-testid, id, name, text, and is role_index only when all four are empty:
\* a non-empty text always takes precedence over role_index.
C19_NamePriorityAsStated ==
    ename.called =>
        ename.value = NameByPriority(ename.element_type, bag, ename.index,
                                     Truthy(bag, "text"))

\* C19: the name comes from the first available source in the order data-testid,
\* id, name, text, where a text is available when it is shorter than 30
\* characters and holds an alphanumeric character, and is role_index only when
\* none is available.
C19_NamePriority ==
    ename.called =>
        ename.value = NameByPriority(ename.element_type, bag, ename.index,
                                     TextUsable(bag))

\* a bag with an empty data-testid, an id, a name and a text was named by its id
C19_Witness ==
    /\ ename.called
    /\ bag.dataTestId = "" /\ bag.id = "main id" /\ bag.name = "user"
    /\ bag.text = "Sign in"
    /\ ename.value = "main_id"

\* the name was derived from the text
FromText(d) ==
    /\ ~Truthy(d, "dataTestId") /\ ~Truthy(d, "id") /\ ~Truthy(d, "name")
    /\ TextUsable(d)

\* C20: a name derived from the text holds alphanumeric characters and single
\* separators only: never two separators in a row.
C20_SingleSeparators ==
    (ename.called /\ FromText(bag)) =>
        /\ \A i \in 1..Len(ename.value) :
              Chr(ename.value, i) \in Alnum \/ Chr(ename.value, i) = "_"
        /\ ~Contains("__", ename.value)

\* the string can be the name of an attribute or a class in Python source
Identifier(str) ==
    /\ str # ""
    /\ \A i \in 1..Len(str) : Chr(str, i) \in Alnum \/ Chr(str, i) = "_"
    /\ Chr(str, 1) \notin Digits

\* the name is what _sanitize_name returned for the data-testid, id or name
Sanitized(d) == Truthy(d, "dataTestId") \/ Truthy(d, "id") \/ Truthy(d, "name")

\* C22: whatever _sanitize_name returns is usable as an identifier: non-empty,
\* letters, digits and underscores only, and not beginning with a digit.
C22_Identifier ==
    (ename.called /\ Sanitized(bag)) => Identifier(ename.value)

----------------------------------------------------------------------------
(* Properties of a run (Spec) *)

\* the item at place k is of the greatest confidence and the first of that confidence
FirstOfGreatest(list, k) ==
    /\ \A j \in 1..Len(list) : list[j].info.confidence <= list[k].info.confidence
    /\ \A j \in 1..(k - 1) : list[j].info.confidence < list[k].info.confidence

\* the selector belongs to the first element of the greatest confidence among the
\* stored elements of the role, in the order of the page objects and their elements
BestOfRole(pos, role, selector) ==
    LET c == _find_elements_by_type(pos, role)
    IN  \E k \in 1..Len(c) : FirstOfGreatest(c, k) /\ c[k].info.selector = selector

\* every fill or click line of the script uses the best element of its role
ScriptUsesBest(pos, steps, script) ==
    \A i \in 1..Len(script) :
        script[i].action \in {"fill", "click"} =>
            BestOfRole(pos, RoleOf(GeneratorBranch(steps[i])), script[i].selector)

\* C8: a fill or click step, and the line the generated script holds for it, uses
\* the element of greatest confidence among all stored elements of the role across
\* all page objects, and of several of that confidence the one that comes first in
\* the page objects.
C8_BestElement ==
    [][ /\ lastUse' # lastUse =>
              LET c == _find_elements_by_type(page_objects, lastUse'.role)
              IN  \E k \in 1..Len(c) :
                     /\ FirstOfGreatest(c, k)
                     /\ c[k].name = lastUse'.name
                     /\ c[k].info.selector = lastUse'.selector
        /\ pc' = "generated" =>
              ScriptUsesBest(page_objects', test_steps', results'.generated_script) ]_vars

\* the password field was filled, and the script fills it, through #pin, the
\* first of four stored password elements of confidence 0.95
C8_Witness ==
    /\ pc = "generated"
    /\ lastUse.role = "password" /\ lastUse.selector = "#pin"
    /\ Len(_find_elements_by_type(page_objects, "password")) >= 4
    /\ \E i \in 1..Len(results.generated_script) :
          results.generated_script[i] = [step |-> i, action |-> "fill", selector |-> "#pin"]

\* C9: after the analysis that ends a step, the stored page object of the page
\* shown, and its serialized copy in results, hold every accepted element the
\* analysis observed, also when the page name was a key already.
C9_ReanalysisAdds ==
    (lastStep.step > 0 /\ ~lastStep.failed) =>
        LET a == Analysis[browser]
        IN  /\ HasKey(page_objects, a.page_name)
            /\ HasKey(results.page_objects, a.page_name)
            /\ \A k \in 1..Len(a.elements) :
                  /\ \E j \in 1..Len(Lookup(page_objects, a.page_name).elements) :
                        Lookup(page_objects, a.page_name).elements[j].info
                            = a.elements[k].info
                  /\ \E j \in 1..Len(Lookup(results.page_objects, a.page_name).elements) :
                        Lookup(results.page_objects, a.page_name).elements[j].info.selector
                            = a.elements[k].info.selector

\* C10: page_objects only grows: a page name stored stays stored, and an element
\* stored in a page object is still stored in it, under its name, after every step.
C10_OnlyGrows ==
    [][ \A k \in 1..Len(page_objects) :
          /\ HasKey(page_objects', page_objects[k].name)
          /\ \A j \in 1..Len(page_objects[k].info.elements) :
                LET e == page_objects[k].info.elements[j]
                    now == Lookup(page_objects', page_objects[k].name).elements
                IN  HasKey(now, e.name) /\ Lookup(now, e.name) = e.info ]_vars

\* a line of the execution log that records the failure of a step
IsStepFailure(line) == Contains(" failed: ", line)

HasReturned == {"returned", "scripted"}

\* C27: the status the saved execution report records is the status
\* process_test_case returns ('completed' for a run that completes), never
\* 'running'.
C27_ReportStatus ==
    (report.written /\ pc \in HasReturned) =>
        /\ report.status = results.status
        /\ report.status # "running"

\* C28: process_test_case returns with status 'completed' or 'failed', never
\* 'running'; the results hold an 'error' exactly when the status is 'failed';
\* and _cleanup was executed exactly once before the return, on every path.
C28_Returns ==
    pc = "returned" =>
        /\ results.status \in {"completed", "failed"}
        /\ (results.error # Absent <=> results.status = "failed")
        /\ cleanups = 1

\* saving the files raised after two steps were executed: the run returned
\* 'failed' with the error, after one _cleanup
C28_Witness ==
    /\ pc = "returned"
    /\ Len(test_steps) = 2
    /\ results.status = "failed" /\ results.error = "OSError"
    /\ results.generated_script # <<>>
    /\ cleanups = 1

\* C29: a call of process_test_case returns status 'completed' only if no step
\* failed: its execution_log holds no 'Step i failed' entry.
C29_CompletedMeansNoFailure ==
    (pc = "returned" /\ results.status = "completed") =>
        \A k \in 1..Len(results.execution_log) :
            ~IsStepFailure(results.execution_log[k])

\* the element of the role a line of the Playwright test script addresses is the
\* one of greatest confidence among the stored elements of the role
PlaywrightUsesBest(pos, line) ==
    LET found == _find_elements_by_type(pos, RoleOf(line.branch))
    IN  (line.action \in {"fill", "click"} /\ found # <<>>) =>
            line.selector = MaxByConfidence(found).info.selector

\* C21: the selector _get_best_selector puts into a generated JavaScript script
\* for a role is the selector of the element of greatest confidence among the
\* stored elements of the role, the element the executor selects for the role.
C21_BestSelector ==
    pc = "scripted" =>
        \A i \in 1..Len(mcp.playwright_test) :
            PlaywrightUsesBest(page_objects, mcp.playwright_test[i])

\* C30: for every step, the branch the executor takes is the branch the
\* generator of the Python script, the generator of the Playwright test script
\* and the script of automation_script_generator take.
C30_SameBranches ==
    pc = "scripted" =>
        \A i \in 1..Len(test_steps) :
            /\ ExecutorBranch(test_steps[i]) = GeneratorBranch(test_steps[i])
            /\ ExecutorBranch(test_steps[i]) = mcp.playwright_test[i].branch
            /\ ExecutorBranch(test_steps[i]) = TemplateBranch(test_steps[i])

====
